---- MODULE Spec2Model ----
(***************************************************************************)
(* Model of the ledger of src/src/mock_portfolio.py (class MockPortfolio): *)
(* cash balance, holdings, transaction log, the spending-pattern estimator *)
(* and the idle-cash computation; of the idle-funds detection, the risk    *)
(* classification and the ranked suggestions of                            *)
(* src/src/investment_analyzer.py; and of the keyword sentiment analysis   *)
(* of src/src/news_analyzer.py; with the two lists the consumers build    *)
(* from the suggestions (src/demo.py, src/src/voice_interaction.py) and    *)
(* add_transaction run from two threads, one statement at a time.          *)
(*                                                                         *)
(* Units.  Money is counted in cents (175.50 USD is 17550), so that the    *)
(* prices of the source are integers.  A figure the source takes in        *)
(* dollars (a dividend amount passed in the shares argument, the fallback  *)
(* constants) is converted with USD.  Time is counted in ticks, TicksPerDay  *)
(* to the day; tick 0 is the instant of construction, taken to be the      *)
(* midnight that starts a Monday.  An average (a pandas mean) is the exact *)
(* fraction [num, den].                                                    *)
(***************************************************************************)
EXTENDS Integers, Sequences, FiniteSets, TLC

VARIABLES
    cash_balance,   \* self.cash_balance
    holdings,       \* self.holdings: a dict, modelled as a function on its keys
    transactions,   \* self.transactions: the log, a sequence of records
    now,            \* the wall clock read by datetime.now()
    call,           \* the call that ran last: its name and arguments
    ret,            \* what that call returned
    pre,            \* the ledger's fields as they were when that call started
    service,        \* NewsAnalyzer.service: TRUE when the search API was built
    builtin_sum,    \* how the interpreter's sum() adds floats (see BuiltinSum)
    market,         \* what yfinance answers for a symbol; no data for a symbol not in it
    feed,           \* what the search API answers for a symbol; nothing for one not in it
    threads         \* the add_transaction call of each of two threads: its place and locals

vars == <<cash_balance, holdings, transactions, now, call, ret, pre,
          service, builtin_sum, market, feed, threads>>

\* the news analyzer, the interpreter and the outside world stay as they are
WorldUnchanged == UNCHANGED <<service, builtin_sum, market, feed>>

\* the same, when no add_transaction call is under way on another thread
NewsUnchanged == WorldUnchanged /\ UNCHANGED threads

-----------------------------------------------------------------------------
(* Bounds of the model *)

\* add_transaction is called at most this many times
MaxManual == 1

\* add_transaction is called at most this many times in a run of serial
\* add_transaction calls alone
MaxSerial == 3

\* the clock stops advancing at this tick
MaxNow == 1

\* the resolution of the clock: ticks to the day
TicksPerDay == 2

-----------------------------------------------------------------------------
(* Inputs, drawn from small sets *)

\* the clock advance between two calls, in ticks (0: the same instant)
Advance == {0, 1}

\* the rounds i of range(10) in which the seeding may draw an entry; in the
\* others both np.random.random() draws fall below their thresholds
SeedRounds == <<9>>

\* np.random.uniform(25.0, 150.0), in cents
DividendDraws == {2500}

\* np.random.choice(symbols), np.random.randint(1, 3), np.random.choice(['buy', 'sell'])
\* and np.random.uniform(0.95, 1.05) in percent
TradeSymbolDraws == {"AAPL"}
TradeShareDraws == {2}
TradeActionDraws == {"buy", "sell"}
PriceFactorDraws == {100}

\* arguments of add_transaction: a held symbol and one that is no key of holdings
SymbolArgs == {"AAPL", "NVDA"}
\* "10" stands for a value that is none of the three actions (demo.py passes
\* its share count in this position)
ActionArgs == {"buy", "sell", "dividend", "10"}
\* the shares and price arguments, as pairs: price=None is <<>>, price=p is
\* <<p>>; 6 shares exceed the 5 of AAPL held at construction, 1 does not
ShareAndPriceArgs == {<<1, <<>>>>, <<6, <<15000>>>>}

\* arguments of update_cash_balance, in cents (demo.py passes -3000)
BalanceArgs == {-300000, 200000}

\* arguments days of get_transaction_history and calculate_spending_patterns
DaysArgs == {1, 30}

-----------------------------------------------------------------------------
(* Helpers *)

\* a dollar figure of the source in the model's unit
USD(x) == 100 * x

\* timedelta(days=d) in the model's unit
Days(d) == d * TicksPerDay

\* MockPortfolio.__init__'s default initial_cash=50000.0
initial_cash == 5000000

None == [tag |-> "None"]

Max(a, b) == IF a >= b THEN a ELSE b

\* dict.get(symbol, 0)
Get(h, symbol) == IF symbol \in DOMAIN h THEN h[symbol] ELSE 0

\* h[symbol] = v on a dict: the key is added when missing
Put(h, symbol, v) == [k \in (DOMAIN h) \cup {symbol} |-> IF k = symbol THEN v ELSE h[k]]

\* _get_mock_price
GetMockPrice(symbol) ==
    CASE symbol = "AAPL" -> 17550
      [] symbol = "MSFT" -> 38025
      [] symbol = "GOOGL" -> 14075
      [] symbol = "TSLA" -> 24530
      [] symbol = "SPY" -> 45080
      [] symbol = "NVDA" -> 87520
      [] symbol = "AMZN" -> 15540
      [] symbol = "META" -> 48560
      [] symbol = "NFLX" -> 42590
      [] symbol = "AMD" -> 14235
      [] OTHER -> 10000

-----------------------------------------------------------------------------
(* Construction *)

\* initial_stocks of _generate_initial_holdings, in the dict's order
InitialSymbols == <<"AAPL", "MSFT", "GOOGL", "TSLA", "SPY">>

InitialStocks ==
    [s \in {"AAPL", "MSFT", "GOOGL", "TSLA", "SPY"} |->
        CASE s = "AAPL" -> 5 [] s = "MSFT" -> 3 [] s = "GOOGL" -> 2
          [] s = "TSLA" -> 1 [] s = "SPY" -> 10]

\* the entry _generate_initial_holdings logs for the k-th initial stock
InitialHoldingEntry(k) ==
    LET symbol == InitialSymbols[k] IN
    [id |-> "initial_" \o symbol,
     symbol |-> symbol,
     action |-> "buy",
     shares |-> InitialStocks[symbol],
     price |-> GetMockPrice(symbol),
     timestamp |-> 0 - Days(30),
     total_value |-> InitialStocks[symbol] * GetMockPrice(symbol)]

InitialHoldingEntries == [k \in 1..Len(InitialSymbols) |-> InitialHoldingEntry(k)]

\* the dividend entry of round i, when its draw passes 0.7
DividendEntry(i, dividend_amount) ==
    [id |-> "dividend_" \o ToString(i),
     symbol |-> "DIVIDEND",
     action |-> "dividend",
     shares |-> 0,
     price |-> 0,
     timestamp |-> (0 - Days(30)) + Days(i * 3),
     total_value |-> dividend_amount]

\* the trade entry of round i, when its draw passes 0.6
TradeEntry(i, symbol, shares, action, factor) ==
    LET price == (GetMockPrice(symbol) * factor) \div 100 IN
    [id |-> "trade_" \o ToString(i),
     symbol |-> symbol,
     action |-> action,
     shares |-> shares,
     price |-> price,
     timestamp |-> (0 - Days(30)) + Days(i * 3),
     total_value |-> shares * price]

\* what one round may append: nothing or one dividend, then nothing or one trade
DividendOutcomes(i) == {<<>>} \cup {<<DividendEntry(i, a)>> : a \in DividendDraws}

TradeOutcomes(i) ==
    {<<>>} \cup
    {<<TradeEntry(i, s, n, a, f)>> :
        s \in TradeSymbolDraws, n \in TradeShareDraws,
        a \in TradeActionDraws, f \in PriceFactorDraws}

\* _generate_initial_transactions: the rounds in order, the dividend of a round
\* before its trade; dv and tr give each round's outcome
RECURSIVE GenerateInitialTransactions(_, _, _)
GenerateInitialTransactions(k, dv, tr) ==
    IF k > Len(SeedRounds) THEN <<>>
    ELSE dv[k] \o tr[k] \o GenerateInitialTransactions(k + 1, dv, tr)

Snapshot == [cash_balance |-> cash_balance, holdings |-> holdings,
             transactions |-> transactions]

\* MockPortfolio.__init__
LedgerInit ==
    /\ cash_balance = initial_cash
    /\ holdings = InitialStocks
    /\ \E dv \in [1..Len(SeedRounds) -> UNION {DividendOutcomes(SeedRounds[k]) : k \in 1..Len(SeedRounds)}],
          tr \in [1..Len(SeedRounds) -> UNION {TradeOutcomes(SeedRounds[k]) : k \in 1..Len(SeedRounds)}] :
          /\ \A k \in 1..Len(SeedRounds) :
                /\ dv[k] \in DividendOutcomes(SeedRounds[k])
                /\ tr[k] \in TradeOutcomes(SeedRounds[k])
          /\ transactions = GenerateInitialTransactions(1, dv, tr) \o InitialHoldingEntries
    /\ now = 0
    /\ call = [op |-> "__init__"]
    /\ ret = None
    /\ pre = [cash_balance |-> initial_cash, holdings |-> InitialStocks,
              transactions |-> <<>>]
    /\ threads = [p \in {"first", "second"} |-> [pc |-> "idle"]]

\* the ledger on its own: no search API is configured
Init ==
    /\ LedgerInit
    /\ service = FALSE
    /\ builtin_sum = "plain"
    /\ market = <<>>
    /\ feed = <<>>

-----------------------------------------------------------------------------
(* add_transaction and update_cash_balance *)

\* every call reads the clock at or after the previous call's reading
Clock(t) == \E d \in Advance : t = now + d /\ t <= MaxNow

\* price = self._get_mock_price(symbol) if price is None
PriceOf(symbol, priceArg) ==
    IF priceArg = <<>> THEN GetMockPrice(symbol) ELSE priceArg[1]

\* a variant that prices every action, dividends included
TotalValueProduct(action, shares, price) == shares * price

\* shares * price if action in ['buy', 'sell'] else shares; in the second case
\* shares is a dollar amount
TotalValue(action, shares, price) ==
    IF action \in {"buy", "sell"} THEN shares * price ELSE USD(shares)

\* a variant that numbers the id by the size of holdings
ManualIdByHoldings(txs) == "manual_" \o ToString(Cardinality(DOMAIN holdings))

\* f'manual_{len(self.transactions)}'
ManualId(txs) == "manual_" \o ToString(Len(txs))

\* the dict add_transaction appends
Transaction(txs, symbol, action, shares, price, timestamp) ==
    [id |-> ManualId(txs),
     symbol |-> symbol,
     action |-> action,
     shares |-> shares,
     price |-> price,
     timestamp |-> timestamp,
     total_value |-> TotalValue(action, shares, price)]

\* a variant that refuses to overdraw: a buy the cash does not cover leaves
\* the balance alone
CashAfterNoOverdraft(cash, action, total_value) ==
    CASE action = "buy" -> IF cash >= total_value THEN cash - total_value ELSE cash
      [] action = "sell" -> cash + total_value
      [] action = "dividend" -> cash + total_value
      [] OTHER -> cash

\* a variant that credits the value of every action that is not a buy
CashAfterCreditOthers(cash, action, total_value) ==
    IF action = "buy" THEN cash - total_value ELSE cash + total_value

\* the cash_balance branch of add_transaction
CashAfter(cash, action, total_value) ==
    CASE action = "buy" -> cash - total_value
      [] action = "sell" -> cash + total_value
      [] action = "dividend" -> cash + total_value
      [] OTHER -> cash

\* a variant without the floor at zero
HoldingsAfterNoClamp(h, symbol, action, shares) ==
    CASE action = "buy" -> Put(h, symbol, Get(h, symbol) + shares)
      [] action = "sell" -> Put(h, symbol, Get(h, symbol) - shares)
      [] OTHER -> h

\* a variant that refuses a sell of more shares than are held
HoldingsAfterRefuse(h, symbol, action, shares) ==
    CASE action = "buy" -> Put(h, symbol, Get(h, symbol) + shares)
      [] action = "sell" ->
            IF Get(h, symbol) >= shares THEN Put(h, symbol, Get(h, symbol) - shares)
            ELSE h
      [] OTHER -> h

\* the holdings branch of add_transaction
HoldingsAfter(h, symbol, action, shares) ==
    CASE action = "buy" -> Put(h, symbol, Get(h, symbol) + shares)
      [] action = "sell" -> Put(h, symbol, Max(0, Get(h, symbol) - shares))
      [] OTHER -> h

\* the entries add_transaction appended: those stamped at or after construction
\* (the seeded entries are stamped 3 to 30 days before it)
NumManual == Cardinality({k \in 1..Len(transactions) : transactions[k].timestamp >= 0})

\* a variant that puts the newest entry first
LogAfterFront(txs, tx) == <<tx>> \o txs

\* self.transactions.append(transaction)
LogAfter(txs, tx) == Append(txs, tx)

AddTransaction(symbol, action, shares, priceArg) ==
    /\ \E t \in now..MaxNow :
          /\ Clock(t)
          /\ now' = t
          /\ LET price == PriceOf(symbol, priceArg)
                 tx == Transaction(transactions, symbol, action, shares, price, t)
             IN /\ transactions' = LogAfter(transactions, tx)
                /\ cash_balance' = CashAfter(cash_balance, action, tx.total_value)
                /\ holdings' = HoldingsAfter(holdings, symbol, action, shares)
    /\ call' = [op |-> "add_transaction", symbol |-> symbol, action |-> action,
                shares |-> shares, price |-> priceArg]
    /\ ret' = None
    /\ pre' = Snapshot
    /\ NewsUnchanged

UpdateCashBalance(new_balance) ==
    /\ \E t \in now..MaxNow : Clock(t) /\ now' = t
    /\ cash_balance' = new_balance
    /\ call' = [op |-> "update_cash_balance", new_balance |-> new_balance]
    /\ ret' = None
    /\ pre' = Snapshot
    /\ UNCHANGED <<holdings, transactions>>
    /\ NewsUnchanged

-----------------------------------------------------------------------------
(* The read-only operations *)

\* get_transaction_history at clock reading t: the entries of the log with
\* start_date <= timestamp <= end_date, in the log's order
GetTransactionHistory(txs, t, days) ==
    LET end_date == t
        start_date == end_date - Days(days)
        InWindow(tx) == start_date <= tx.timestamp /\ tx.timestamp <= end_date
    IN SelectSeq(txs, InWindow)

\* a variant that counts plain dividends as spending too
IsSpendingWithDividend(tx) ==
    tx.action = "buy" \/ tx.action = "dividend_reinvest" \/ tx.action = "dividend"

\* the rows calculate_spending_patterns keeps: buys and dividend reinvestments
IsSpending(tx) == tx.action = "buy" \/ tx.action = "dividend_reinvest"

SpendingTransactions(history) == SelectSeq(history, IsSpending)

\* timestamp.dt.date: the calendar day a tick falls in
DateOf(timestamp) == timestamp \div TicksPerDay

\* timestamp.dt.isocalendar().week: tick 0 starts the Monday of ISO week 10
IsoWeekOf(timestamp) == 10 + (DateOf(timestamp) \div 7)

RECURSIVE SumTotalValue(_)
SumTotalValue(rows) ==
    IF rows = <<>> THEN 0 ELSE Head(rows).total_value + SumTotalValue(Tail(rows))

\* a variant that makes every row a group of its own
DailySpendingPerRow(rows) == [k \in 1..Len(rows) |-> rows[k].total_value]

\* groupby(timestamp.dt.date)['total_value'].sum(): one sum for each date
\* that occurs
DailySpending(rows) ==
    LET keys == {DateOf(rows[k].timestamp) : k \in 1..Len(rows)}
        OfKey(g) == LET Is(tx) == DateOf(tx.timestamp) = g IN SelectSeq(rows, Is)
    IN [g \in keys |-> SumTotalValue(OfKey(g))]

\* groupby(timestamp.dt.isocalendar().week)['total_value'].sum(): one sum for
\* each week number that occurs
WeeklySpending(rows) ==
    LET keys == {IsoWeekOf(rows[k].timestamp) : k \in 1..Len(rows)}
        OfKey(g) == LET Is(tx) == IsoWeekOf(tx.timestamp) = g IN SelectSeq(rows, Is)
    IN [g \in keys |-> SumTotalValue(OfKey(g))]

RECURSIVE SumOver(_, _)
SumOver(f, keys) ==
    IF keys = {} THEN 0
    ELSE LET g == CHOOSE x \in keys : TRUE IN f[g] + SumOver(f, keys \ {g})

\* Series.mean() of a non-empty series of group sums, as an exact fraction
Mean(series) == [num |-> SumOver(series, DOMAIN series), den |-> Cardinality(DOMAIN series)]

\* a float of the source as a fraction
Exact(x) == [num |-> x, den |-> 1]

\* daily_spending.mean() * 30
Times(q, n) == [num |-> q.num * n, den |-> q.den]

\* a variant that takes the window's total as the month's spending
MonthlyAverageOfWindow(daily_spending) ==
    Exact(SumOver(daily_spending, DOMAIN daily_spending))

\* the 'monthly_average' entry of the computed pattern
MonthlyAverage(daily_spending) ==
    IF DOMAIN daily_spending # {} THEN Times(Mean(daily_spending), 30)
    ELSE Exact(USD(4500))

\* the dict returned when no row is a spending row
FallbackPattern ==
    [tag |-> "pattern",
     daily_average |-> Exact(USD(50)),
     weekly_average |-> Exact(USD(350)),
     monthly_average |-> Exact(USD(1500))]

\* the dict returned from the grouped rows
ComputedPattern(spending) ==
    LET daily_spending == DailySpending(spending)
        weekly_spending == WeeklySpending(spending)
    IN [tag |-> "pattern",
        daily_average |-> IF DOMAIN daily_spending # {} THEN Mean(daily_spending)
                          ELSE Exact(USD(150)),
        weekly_average |-> IF DOMAIN weekly_spending # {} THEN Mean(weekly_spending)
                           ELSE Exact(USD(1050)),
        monthly_average |-> MonthlyAverage(daily_spending)]

\* a variant that answers an empty window with the fallback pattern
CalculateSpendingPatternsNoNone(txs, t, days) ==
    LET history == GetTransactionHistory(txs, t, days)
        spending == SpendingTransactions(history)
    IN IF spending = <<>> THEN FallbackPattern ELSE ComputedPattern(spending)

\* calculate_spending_patterns at clock reading t
CalculateSpendingPatterns(txs, t, days) ==
    LET history == GetTransactionHistory(txs, t, days)
        spending == SpendingTransactions(history)
    IN IF history = <<>> THEN None
       ELSE IF spending = <<>> THEN FallbackPattern
       ELSE ComputedPattern(spending)

\* max(0, cash - monthly) for a fraction monthly, as a fraction
IdleOver(cash, monthly) ==
    [num |-> Max(0, cash * monthly.den - monthly.num), den |-> monthly.den]

\* get_idle_cash at clock reading t (calculate_spending_patterns with its default days=30)
GetIdleCash(cash, txs, t) ==
    LET spending_patterns == CalculateSpendingPatterns(txs, t, 30)
    IN IF spending_patterns = None THEN Exact(Max(0, cash - USD(1000)))
       ELSE IdleOver(cash, spending_patterns.monthly_average)

\* get_portfolio_value: cash plus the holdings at their mock prices
GetPortfolioValue(cash, h) ==
    LET value == [symbol \in DOMAIN h |-> h[symbol] * GetMockPrice(symbol)]
    IN cash + SumOver(value, DOMAIN h)

\* a call that changes no field of the ledger
Read(name, days, value) ==
    /\ call' = [op |-> name, days |-> days]
    /\ ret' = value
    /\ pre' = Snapshot
    /\ UNCHANGED <<cash_balance, holdings, transactions>>
    /\ NewsUnchanged

CallGetTransactionHistory(days) ==
    \E t \in now..MaxNow :
        /\ Clock(t)
        /\ now' = t
        /\ Read("get_transaction_history", days,
                [tag |-> "frame", rows |-> GetTransactionHistory(transactions, t, days)])

CallCalculateSpendingPatterns(days) ==
    \E t \in now..MaxNow :
        /\ Clock(t)
        /\ now' = t
        /\ Read("calculate_spending_patterns", days,
                CalculateSpendingPatterns(transactions, t, days))

CallGetIdleCash ==
    \E t \in now..MaxNow :
        /\ Clock(t)
        /\ now' = t
        /\ Read("get_idle_cash", 30,
                [tag |-> "number", value |-> GetIdleCash(cash_balance, transactions, t)])

CallGetPortfolioValue ==
    /\ UNCHANGED now
    /\ Read("get_portfolio_value", 0,
            [tag |-> "number", value |-> Exact(GetPortfolioValue(cash_balance, holdings))])

-----------------------------------------------------------------------------
(* identify_unused_funds of src/src/investment_analyzer.py, which reads the *)
(* ledger through PortfolioMonitor                                          *)

\* MIN_INVESTMENT_AMOUNT of config/config.py, in dollars
MIN_INVESTMENT_AMOUNT == 100

\* q * (1 + UNUSED_BALANCE_THRESHOLD), the threshold being 0.5
TimesThreshold(q) == [num |-> q.num * 3, den |-> q.den * 2]

\* cash - q for a fraction q, as a fraction
CashLess(cash, q) == [num |-> cash * q.den - q.num, den |-> q.den]

\* q >= the whole amount n, for a fraction q of positive denominator
AtLeast(q, n) == q.num >= n * q.den

\* the monthly average identify_unused_funds works from
MonthlyOrDefault(spending_patterns) ==
    IF spending_patterns = None THEN Exact(USD(1500))
    ELSE spending_patterns.monthly_average

\* the dict identify_unused_funds returns
UnusedFunds(current_balance, monthly_average) ==
    LET unused_funds == CashLess(current_balance, monthly_average) IN
    [tag |-> "unused_funds",
     total_balance |-> current_balance,
     monthly_average |-> monthly_average,
     unused_funds |-> unused_funds,
     threshold |-> TimesThreshold(monthly_average),
     available_for_investment |-> unused_funds]

\* a variant that returns a result only for a balance at or above the threshold
IdentifyUnusedFundsAboveThreshold(cash, txs, t) ==
    LET monthly_average == MonthlyOrDefault(CalculateSpendingPatterns(txs, t, 30))
    IN IF AtLeast(CashLess(cash, TimesThreshold(monthly_average)), 0)
       THEN UnusedFunds(cash, monthly_average)
       ELSE None

\* identify_unused_funds at clock reading t
IdentifyUnusedFunds(cash, txs, t) ==
    LET monthly_average == MonthlyOrDefault(CalculateSpendingPatterns(txs, t, 30))
        unused_funds == CashLess(cash, monthly_average)
    IN IF AtLeast(unused_funds, USD(MIN_INVESTMENT_AMOUNT))
       THEN UnusedFunds(cash, monthly_average)
       ELSE None

CallIdentifyUnusedFunds ==
    \E t \in now..MaxNow :
        /\ Clock(t)
        /\ now' = t
        /\ Read("identify_unused_funds", 30,
                IdentifyUnusedFunds(cash_balance, transactions, t))

-----------------------------------------------------------------------------

Next ==
    \/ /\ NumManual < MaxManual
       /\ \E symbol \in SymbolArgs, action \in ActionArgs, sp \in ShareAndPriceArgs :
             AddTransaction(symbol, action, sp[1], sp[2])
    \/ \E new_balance \in BalanceArgs : UpdateCashBalance(new_balance)
    \/ \E days \in DaysArgs : CallGetTransactionHistory(days)
    \/ \E days \in DaysArgs : CallCalculateSpendingPatterns(days)
    \/ CallGetIdleCash
    \/ CallGetPortfolioValue
    \/ CallIdentifyUnusedFunds

Spec == Init /\ [][Next]_vars

\* construction followed by serial add_transaction calls and nothing else
SerialNext ==
    /\ NumManual < MaxSerial
    /\ \E symbol \in SymbolArgs, action \in ActionArgs :
          AddTransaction(symbol, action, 1, <<>>)

SpecSerial == Init /\ [][SerialNext]_vars

-----------------------------------------------------------------------------
(* add_transaction called from two threads.  The method takes no lock, so   *)
(* the threads' statements interleave; a step below is one statement of     *)
(* the method.                                                              *)

Callers == {"first", "second"}

\* the arguments of the two calls: symbol, action, shares, price
ConcurrentArgs ==
    {<<"AAPL", "buy", 6, <<15000>>>>, <<"AAPL", "sell", 6, <<15000>>>>,
     <<"AAPL", "dividend", 1, <<>>>>}

\* one statement of a thread's call has run
Stepped(p, frame) ==
    /\ threads' = [threads EXCEPT ![p] = frame]
    /\ call' = [op |-> "add_transaction", caller |-> p, pc |-> frame.pc]
    /\ ret' = None
    /\ UNCHANGED <<now, pre>>
    /\ WorldUnchanged

\* the call is entered: the frame holds the arguments, and the ledger's
\* fields as they are at this point
Enter(p, symbol, action, shares, priceArg) ==
    /\ threads[p].pc = "idle"
    /\ Stepped(p, [pc |-> "price", symbol |-> symbol, action |-> action, shares |-> shares,
                   priceArg |-> priceArg, entry |-> Snapshot])
    /\ UNCHANGED <<cash_balance, holdings, transactions>>

\* if price is None: price = self._get_mock_price(symbol)
StepPrice(p) ==
    LET f == threads[p] IN
    /\ f.pc = "price"
    /\ Stepped(p, [pc |-> "total_value", symbol |-> f.symbol, action |-> f.action,
                   shares |-> f.shares, priceArg |-> f.priceArg, entry |-> f.entry,
                   price |-> PriceOf(f.symbol, f.priceArg)])
    /\ UNCHANGED <<cash_balance, holdings, transactions>>

\* total_value = ...
StepTotalValue(p) ==
    LET f == threads[p] IN
    /\ f.pc = "total_value"
    /\ Stepped(p, [pc |-> "transaction", symbol |-> f.symbol, action |-> f.action,
                   shares |-> f.shares, priceArg |-> f.priceArg, entry |-> f.entry,
                   price |-> f.price,
                   total_value |-> TotalValue(f.action, f.shares, f.price)])
    /\ UNCHANGED <<cash_balance, holdings, transactions>>

\* transaction = {...}: the id is read off the log as it is now
StepTransaction(p) ==
    LET f == threads[p] IN
    /\ f.pc = "transaction"
    /\ Stepped(p, [pc |-> "append", symbol |-> f.symbol, action |-> f.action,
                   shares |-> f.shares, priceArg |-> f.priceArg, entry |-> f.entry,
                   price |-> f.price, total_value |-> f.total_value,
                   transaction |-> Transaction(transactions, f.symbol, f.action, f.shares,
                                               f.price, now)])
    /\ UNCHANGED <<cash_balance, holdings, transactions>>

\* the frame at another place
At(f, pc) ==
    [pc |-> pc, symbol |-> f.symbol, action |-> f.action, shares |-> f.shares,
     priceArg |-> f.priceArg, entry |-> f.entry, price |-> f.price,
     total_value |-> f.total_value, transaction |-> f.transaction]

\* self.transactions.append(transaction), then the tests of the if chain
StepAppend(p) ==
    LET f == threads[p] IN
    /\ f.pc = "append"
    /\ transactions' = LogAfter(transactions, f.transaction)
    /\ Stepped(p, At(f, IF f.action \in {"buy", "sell", "dividend"} THEN "cash" ELSE "done"))
    /\ UNCHANGED <<cash_balance, holdings>>

\* self.cash_balance -= total_value, or += total_value
StepCash(p) ==
    LET f == threads[p] IN
    /\ f.pc = "cash"
    /\ cash_balance' = CashAfter(cash_balance, f.action, f.total_value)
    /\ Stepped(p, At(f, IF f.action = "dividend" THEN "done" ELSE "holdings"))
    /\ UNCHANGED <<holdings, transactions>>

\* self.holdings[symbol] = ...
StepHoldings(p) ==
    LET f == threads[p] IN
    /\ f.pc = "holdings"
    /\ holdings' = HoldingsAfter(holdings, f.symbol, f.action, f.shares)
    /\ Stepped(p, At(f, "done"))
    /\ UNCHANGED <<cash_balance, transactions>>

\* get_idle_cash called from a third thread, between any two statements
Observe ==
    /\ \E t \in now..MaxNow :
          /\ Clock(t)
          /\ now' = t
          /\ call' = [op |-> "get_idle_cash", days |-> 30]
          /\ ret' = [tag |-> "number", value |-> GetIdleCash(cash_balance, transactions, t)]
    /\ UNCHANGED <<cash_balance, holdings, transactions, pre, threads>>
    /\ WorldUnchanged

ConcurrentNext ==
    \/ \E p \in Callers, a \in ConcurrentArgs : Enter(p, a[1], a[2], a[3], a[4])
    \/ \E p \in Callers : StepPrice(p)
    \/ \E p \in Callers : StepTotalValue(p)
    \/ \E p \in Callers : StepTransaction(p)
    \/ \E p \in Callers : StepAppend(p)
    \/ \E p \in Callers : StepCash(p)
    \/ \E p \in Callers : StepHoldings(p)
    \/ Observe

SpecConcurrent == Init /\ [][ConcurrentNext]_vars

-----------------------------------------------------------------------------
(* Properties of the ledger *)

IsAdd(action) == call.op = "add_transaction" /\ call.action = action

\* the price the last add_transaction call was asked to use: the one supplied,
\* or the mock price when none was
CallPrice ==
    IF call.price = <<>> THEN GetMockPrice(call.symbol) ELSE Head(call.price)

LastEntry == transactions[Len(transactions)]

\* every key but the call's symbol holds what it held when the call started
OtherHoldingsKept ==
    /\ (DOMAIN holdings) \ {call.symbol} = (DOMAIN pre.holdings) \ {call.symbol}
    /\ \A k \in (DOMAIN holdings) \ {call.symbol} : holdings[k] = pre.holdings[k]

\* C1: a buy of s shares at price p, overdraft or not, decreases cash_balance
\* by exactly s*p, increases holdings[symbol] by exactly s (a missing symbol
\* counting as 0) and leaves every other symbol's holding unchanged.
C1_BuyDebitsCashAddsShares ==
    IsAdd("buy") =>
        /\ cash_balance = pre.cash_balance - call.shares * CallPrice
        /\ call.symbol \in DOMAIN holdings
        /\ holdings[call.symbol] = Get(pre.holdings, call.symbol) + call.shares
        /\ OtherHoldingsKept

\* a buy that overdraws the account, of a symbol that was no key of holdings
C1_Witness ==
    /\ IsAdd("buy")
    /\ pre.cash_balance < call.shares * CallPrice
    /\ call.symbol \notin DOMAIN pre.holdings
    /\ cash_balance < 0

\* C2: a sell of more shares than are held sets holdings[symbol] to exactly 0
\* while cash_balance increases by s*p for the requested s.
C2_OversellClampsToZero ==
    (IsAdd("sell") /\ call.shares > Get(pre.holdings, call.symbol)) =>
        /\ call.symbol \in DOMAIN holdings
        /\ holdings[call.symbol] = 0
        /\ cash_balance = pre.cash_balance + call.shares * CallPrice

\* a sell of more shares than the positive number held
C2_Witness ==
    /\ IsAdd("sell")
    /\ Get(pre.holdings, call.symbol) > 0
    /\ call.shares > Get(pre.holdings, call.symbol)
    /\ holdings[call.symbol] = 0

\* C3: every value in holdings is an integer >= 0.
C3_HoldingsNonNegative == \A symbol \in DOMAIN holdings : holdings[symbol] \in Nat

\* a sell of a symbol that was no key of holdings has run
C3_Witness ==
    /\ IsAdd("sell")
    /\ call.symbol \notin DOMAIN pre.holdings
    /\ call.symbol \in DOMAIN holdings

\* the effect on cash the log records for one entry
Signed(tx) ==
    CASE tx.action = "buy" -> 0 - tx.total_value
      [] tx.action \in {"sell", "dividend"} -> tx.total_value
      [] OTHER -> 0

RECURSIVE NetOfLog(_)
NetOfLog(txs) == IF txs = <<>> THEN 0 ELSE Signed(Head(txs)) + NetOfLog(Tail(txs))

\* C4: cash_balance equals initial_cash minus the total_value of the recorded
\* buys plus the total_value of the recorded sells and dividends.
C4_CashReflectsLog == cash_balance = initial_cash + NetOfLog(transactions)

Reads == {"get_transaction_history", "calculate_spending_patterns",
          "get_idle_cash", "get_portfolio_value", "identify_unused_funds"}

\* C5: the log is append-only: add_transaction appends exactly one entry at
\* the end, and no operation removes, reorders or modifies an entry.
C5_LogAppendOnly ==
    /\ Len(transactions) >= Len(pre.transactions)
    /\ SubSeq(transactions, 1, Len(pre.transactions)) = pre.transactions
    /\ call.op = "add_transaction" => Len(transactions) = Len(pre.transactions) + 1
    /\ call.op \in Reads \cup {"update_cash_balance"} => transactions = pre.transactions

\* a read-only operation has run on a log that add_transaction extended
C5_Witness ==
    /\ call.op = "calculate_spending_patterns"
    /\ NumManual > 0
    /\ Len(transactions) > 6

\* C6: the ids of the transactions in the log are pairwise distinct.
C6_IdsDistinct ==
    \A i, j \in 1..Len(transactions) :
        i # j => transactions[i].id # transactions[j].id

\* a log with seeded dividend, trade and initial entries and several manual ones
C6_Witness ==
    /\ Len(transactions) = 10
    /\ NumManual = 3
    /\ transactions[1].action = "dividend"

\* C7: a dividend of amount a increases cash_balance by exactly a, whatever
\* the price argument, records total_value = a and changes no holding.
C7_DividendCreditsAmount ==
    IsAdd("dividend") =>
        /\ cash_balance = pre.cash_balance + USD(call.shares)
        /\ LastEntry.total_value = USD(call.shares)
        /\ holdings = pre.holdings

\* a dividend recorded with a price supplied
C7_Witness ==
    /\ IsAdd("dividend")
    /\ call.price # <<>>
    /\ LastEntry.price * call.shares # USD(call.shares)

-----------------------------------------------------------------------------
(* Properties of the spending-pattern estimator *)

IsPatternCall == call.op = "calculate_spending_patterns"

\* the entries of the log stamped within [now - days, now]
WindowEntries ==
    {k \in 1..Len(transactions) :
        /\ now - Days(call.days) <= transactions[k].timestamp
        /\ transactions[k].timestamp <= now}

\* C8: calculate_spending_patterns returns None whenever the trailing window
\* contains no transaction at all.
C8_EmptyWindowGivesNone ==
    (IsPatternCall /\ WindowEntries = {}) => ret = None

\* the default 30-day window holds no entry of a log that is not empty
C8_Witness ==
    /\ IsPatternCall
    /\ call.days = 30
    /\ WindowEntries = {}
    /\ transactions # <<>>

\* C9: a window that holds transactions, none of them a buy or a
\* dividend_reinvest, gives the fallback pattern 50 / 350 / 1500.
C9_NoSpendingGivesFallback ==
    (/\ IsPatternCall
     /\ WindowEntries # {}
     /\ \A k \in WindowEntries :
            transactions[k].action \notin {"buy", "dividend_reinvest"}) =>
        /\ ret.tag = "pattern"
        /\ ret.daily_average = [num |-> 5000, den |-> 1]
        /\ ret.weekly_average = [num |-> 35000, den |-> 1]
        /\ ret.monthly_average = [num |-> 150000, den |-> 1]

\* the window holds a sell and a dividend and no buy
C9_Witness ==
    /\ IsPatternCall
    /\ \E k \in WindowEntries : transactions[k].action = "sell"
    /\ \E k \in WindowEntries : transactions[k].action = "dividend"
    /\ \A k \in WindowEntries : transactions[k].action # "buy"

\* C10: every pattern returned has monthly_average = 30 * daily_average.
C10_MonthlyIsThirtyDaily ==
    (IsPatternCall /\ ret.tag = "pattern") =>
        ret.monthly_average.num * ret.daily_average.den
            = 30 * ret.daily_average.num * ret.monthly_average.den

\* a pattern computed from buys on more than one date
C10_Witness ==
    /\ IsPatternCall
    /\ ret.tag = "pattern"
    /\ ret.daily_average.den > 1

\* the entries of the window that count as spending
QualifyingEntries ==
    {k \in WindowEntries : transactions[k].action \in {"buy", "dividend_reinvest"}}

RECURSIVE TotalOf(_)
TotalOf(entries) ==
    IF entries = {} THEN 0
    ELSE LET k == CHOOSE x \in entries : TRUE
         IN transactions[k].total_value + TotalOf(entries \ {k})

-----------------------------------------------------------------------------
(* Properties of identify_unused_funds *)

IsUnusedFundsCall == call.op = "identify_unused_funds"

\* the monthly average of the default 30-day window, or 1500 dollars when
\* no pattern is available, as a fraction of cents
MonthlyNow ==
    LET spending_patterns == CalculateSpendingPatterns(transactions, now, 30)
    IN IF spending_patterns = None THEN [num |-> 150000, den |-> 1]
       ELSE spending_patterns.monthly_average

\* C12: identify_unused_funds returns a result if and only if
\* cash_balance - monthly_average >= 100 dollars, monthly_average being the
\* pattern's or 1500 without a pattern; unused_funds is exactly
\* cash_balance - monthly_average, and the reported threshold of 1.5 times
\* monthly_average gates nothing.
C12_UnusedFundsGatedByMinimum ==
    IsUnusedFundsCall =>
        LET m == MonthlyNow IN
        /\ (ret # None) <=> (cash_balance * m.den - m.num >= 10000 * m.den)
        /\ ret # None =>
              /\ ret.monthly_average.num * m.den = m.num * ret.monthly_average.den
              /\ ret.unused_funds.num * m.den
                    = (cash_balance * m.den - m.num) * ret.unused_funds.den
              /\ 2 * ret.threshold.num * m.den = 3 * m.num * ret.threshold.den

\* a result returned for a balance below the reported threshold
C12_Witness ==
    /\ IsUnusedFundsCall
    /\ ret # None
    /\ cash_balance * ret.threshold.den < ret.threshold.num
    /\ ret.unused_funds.num > 0

\* no result for a balance less than 100 dollars above the monthly average
C12_WitnessNone ==
    /\ IsUnusedFundsCall
    /\ ret = None
    /\ cash_balance > 0

-----------------------------------------------------------------------------
(* The risk classification of src/src/investment_analyzer.py: the risk     *)
(* tier and warning get_investment_suggestions gives a suggestion, and     *)
(* _assess_risk.  A volatility is counted in percent (0.2 is 20), an RSI   *)
(* in points, a beta in hundredths (1.5 is 150), and base_risk in halves   *)
(* (0.5 is 1).                                                             *)

\* sample volatilities, in percent, on both sides of every threshold
VolatilityArgs == {0, 19, 20, 25, 26, 29, 30, 40, 41, 49, 50, 80}

\* the regions the category loop assigns, and one no category gives
RegionArgs == {"US", "UK", "Europe", "Asia", "Canada", "Australia", "Germany"}

TrendArgs == {"bullish", "bearish"}
RsiArgs == {10, 30, 50, 70, 71}
VolumeTrendArgs == {"increasing", "decreasing"}

\* info.get('beta', 'N/A'): a number in hundredths, or something that is none
BetaArgs == {[numeric |-> FALSE, value |-> 0]} \cup
            {[numeric |-> TRUE, value |-> b] : b \in {80, 100, 101, 150, 151}}

\* region not in ['US', 'UK']
IsForeign(region) == region \notin {"US", "UK"}

\* base_risk, in halves
BaseRisk(is_growth_stock, region) ==
    (IF is_growth_stock THEN 2 ELSE 0) + (IF IsForeign(region) THEN 1 ELSE 0)

\* a variant that puts a volatility of exactly 0.2, 0.3 or 0.5 in the lower tier
RiskLevelBoundaryLow(volatility, is_growth_stock, region) ==
    LET base_risk == BaseRisk(is_growth_stock, region) IN
    IF volatility <= 20 THEN (IF base_risk < 2 THEN "low" ELSE "medium")
    ELSE IF volatility <= 30 THEN (IF base_risk < 3 THEN "medium" ELSE "high")
    ELSE IF volatility <= 50 THEN "high"
    ELSE "extreme"

\* risk_level of a suggestion
RiskLevel(volatility, is_growth_stock, region) ==
    LET base_risk == BaseRisk(is_growth_stock, region) IN
    IF volatility < 20 THEN (IF base_risk < 2 THEN "low" ELSE "medium")
    ELSE IF volatility < 30 THEN (IF base_risk < 3 THEN "medium" ELSE "high")
    ELSE IF volatility < 50 THEN "high"
    ELSE "extreme"

GrowthWarning == "Growth stocks can be volatile and may experience significant price swings."
InternationalWarning == " International investments may involve currency and political risks."

\* a variant in which the international warning replaces the growth warning
RiskWarningReplaced(is_growth_stock, region) ==
    IF IsForeign(region) THEN <<InternationalWarning>>
    ELSE IF is_growth_stock THEN <<GrowthWarning>>
    ELSE <<>>

\* risk_warning of a suggestion: <<>> for None, or <<text>>
RiskWarning(is_growth_stock, region) ==
    LET risk_warning == IF is_growth_stock THEN <<GrowthWarning>> ELSE <<>>
    IN IF IsForeign(region)
       THEN <<(IF risk_warning = <<>> THEN "" ELSE risk_warning[1]) \o InternationalWarning>>
       ELSE risk_warning

\* the risk_score _assess_risk adds up
RiskScore(analysis) ==
    (IF analysis.trend = "bullish" THEN 1 ELSE 2)
    + (IF analysis.rsi > 70 THEN 2 ELSE IF analysis.rsi < 30 THEN 0 ELSE 1)
    + (IF analysis.volatility > 40 THEN 3 ELSE IF analysis.volatility > 25 THEN 2 ELSE 1)
    + (IF analysis.volume_trend = "increasing" THEN 1 ELSE 2)
    + (IF analysis.beta.numeric
       THEN (IF analysis.beta.value > 150 THEN 2
             ELSE IF analysis.beta.value > 100 THEN 1 ELSE 0)
       ELSE 0)

\* a variant whose top tier starts one point later
AssessRiskLateExtreme(analysis) ==
    LET risk_score == RiskScore(analysis) IN
    IF risk_score <= 4 THEN "low"
    ELSE IF risk_score <= 7 THEN "medium"
    ELSE IF risk_score <= 11 THEN "high"
    ELSE "extreme"

\* _assess_risk
AssessRisk(analysis) ==
    LET risk_score == RiskScore(analysis) IN
    IF risk_score <= 4 THEN "low"
    ELSE IF risk_score <= 7 THEN "medium"
    ELSE IF risk_score <= 10 THEN "high"
    ELSE "extreme"

\* the ledger stays as it is
LedgerUnchanged == UNCHANGED <<cash_balance, holdings, transactions, now, pre>>

\* the classification of one stock inside get_investment_suggestions
Classify(volatility, is_growth_stock, region) ==
    /\ call' = [op |-> "classify", volatility |-> volatility,
                is_growth_stock |-> is_growth_stock, region |-> region]
    /\ ret' = [risk_level |-> RiskLevel(volatility, is_growth_stock, region),
               risk_warning |-> RiskWarning(is_growth_stock, region)]
    /\ LedgerUnchanged
    /\ NewsUnchanged

CallAssessRisk(analysis) ==
    /\ call' = [op |-> "_assess_risk", analysis |-> analysis]
    /\ ret' = [tag |-> "risk_level", value |-> AssessRisk(analysis)]
    /\ LedgerUnchanged
    /\ NewsUnchanged

\* the analyzer right after construction, with no seeded entry in the log
AnalyzerInit == Init /\ Len(transactions) = Len(InitialSymbols)

RiskNext ==
    \/ \E volatility \in VolatilityArgs, is_growth_stock \in BOOLEAN, region \in RegionArgs :
          Classify(volatility, is_growth_stock, region)
    \/ \E analysis \in [trend : TrendArgs, rsi : RsiArgs, volatility : VolatilityArgs,
                          volume_trend : VolumeTrendArgs, beta : BetaArgs] :
          CallAssessRisk(analysis)

SpecRisk == AnalyzerInit /\ [][RiskNext]_vars

-----------------------------------------------------------------------------
(* Properties of the risk classification *)

IsClassify == call.op = "classify"

\* C13: the risk tier follows the reference table: baseRisk = (growth ? 1 : 0)
\* + (region not US or UK ? 0.5 : 0); v < 0.20 gives low if baseRisk < 1 else
\* medium; 0.20 <= v < 0.30 gives medium if baseRisk < 1.5 else high;
\* 0.30 <= v < 0.50 gives high; v >= 0.50 gives extreme.
C13_RiskTierTable ==
    IsClassify =>
        LET v == call.volatility
            twiceBase == (IF call.is_growth_stock THEN 2 ELSE 0)
                         + (IF call.region \in {"US", "UK"} THEN 0 ELSE 1)
        IN /\ v < 20 => ret.risk_level = (IF twiceBase < 2 THEN "low" ELSE "medium")
           /\ (20 <= v /\ v < 30) =>
                 ret.risk_level = (IF twiceBase < 3 THEN "medium" ELSE "high")
           /\ (30 <= v /\ v < 50) => ret.risk_level = "high"
           /\ v >= 50 => ret.risk_level = "extreme"

\* a growth stock of a foreign region at a volatility of exactly 0.2
C13_Witness ==
    /\ IsClassify
    /\ call.volatility = 20
    /\ call.is_growth_stock
    /\ call.region = "Germany"
    /\ ret.risk_level = "high"

\* C14: the warning is absent iff the stock is no growth stock and its
\* region is US or UK; it holds the growth sentence iff the stock is a growth
\* stock and the international sentence iff the region is neither US nor UK;
\* with both, the international sentence follows the growth sentence.
C14_WarningConcatenated ==
    IsClassify =>
        LET growth == call.is_growth_stock
            foreign == call.region \notin {"US", "UK"}
            g == "Growth stocks can be volatile and may experience significant price swings."
            i == " International investments may involve currency and political risks."
        IN /\ (ret.risk_warning = <<>>) <=> (~growth /\ ~foreign)
           /\ (growth /\ ~foreign) => ret.risk_warning = <<g>>
           /\ (~growth /\ foreign) => ret.risk_warning = <<i>>
           /\ (growth /\ foreign) => ret.risk_warning = <<g \o i>>

\* a growth stock of a foreign region: both sentences
C14_Witness ==
    /\ IsClassify
    /\ call.is_growth_stock
    /\ call.region = "Asia"
    /\ ret.risk_warning # <<>>

\* the five factor scores of the claim, for one analysis
FactorSum(a) ==
    (CASE a.trend = "bullish" -> 1 [] OTHER -> 2)
    + (CASE a.rsi > 70 -> 2 [] a.rsi < 30 -> 0 [] OTHER -> 1)
    + (CASE a.volatility > 40 -> 3 [] a.volatility > 25 -> 2 [] OTHER -> 1)
    + (CASE a.volume_trend = "increasing" -> 1 [] OTHER -> 2)
    + (CASE a.beta.numeric /\ a.beta.value > 150 -> 2
         [] a.beta.numeric /\ a.beta.value > 100 -> 1
         [] OTHER -> 0)

\* C15: _assess_risk returns the tier of the sum of its five factor scores:
\* a sum <= 4 is low, <= 7 medium, <= 10 high, anything above extreme.
C15_AssessRiskBuckets ==
    call.op = "_assess_risk" =>
        LET score == FactorSum(call.analysis) IN
        ret.value = (CASE score <= 4 -> "low"
                       [] score > 4 /\ score <= 7 -> "medium"
                       [] score > 7 /\ score <= 10 -> "high"
                       [] OTHER -> "extreme")

\* every factor at its worst: a sum of 11
C15_Witness ==
    /\ call.op = "_assess_risk"
    /\ FactorSum(call.analysis) = 11
    /\ ret.value = "extreme"

-----------------------------------------------------------------------------
(* Floats of the sentiment scores.  Every double the sentiment analysis    *)
(* computes before its final division is k/5 + e*u for integers k and e,   *)
(* u being 2^-58 / 5: the record [k, e].  One fifth is no double; the      *)
(* double 0.2 is [1, 16].  The doubles of the binade [2^b, 2^(b+1)) are    *)
(* spaced 5 * 2^(b+6) units of u apart.                                    *)

\* at most this many news items in one search result
MaxItems == 3

Zero == [k |-> 0, e |-> 0]

\* the binade of a/5 + f*u for a in 1..39: just below a power of two the
\* value belongs to the binade underneath
Binade(a, f) ==
    LET b == CASE a = 1 -> -3
               [] a = 2 -> -2
               [] a \in 3..4 -> -1
               [] a \in 5..9 -> 0
               [] a \in 10..19 -> 1
               [] OTHER -> 2
    IN IF a \in {5, 10, 20} /\ f < 0 THEN b - 1 ELSE b

\* 2^n mod 5
PowerOfTwoMod5(n) == CASE n % 4 = 0 -> 1 [] n % 4 = 1 -> 2 [] n % 4 = 2 -> 4 [] OTHER -> 3

\* the double nearest to k/5 + e*u, ties to the even mantissa
Round[k \in Int, e \in Int] ==
    IF k = 0 THEN [k |-> 0, e |-> e]
    ELSE LET sign == IF k > 0 THEN 1 ELSE -1
             a == sign * k
             f == sign * e
             b == Binade(a, f)
             spacing == 5 * 2^(b + 6)
             \* 2^58 modulo twice the spacing
             unit == 2^(b + 7) * PowerOfTwoMod5(58 - (b + 7))
             position == (a * unit + f) % (2 * spacing)
             r == position % spacing
             odd == position >= spacing
             rounded == IF r = 0 THEN f
                        ELSE IF 2 * r < spacing THEN f - r
                        ELSE IF 2 * r > spacing THEN f - r + spacing
                        ELSE IF odd THEN f - r + spacing ELSE f - r
         IN [k |-> k, e |-> sign * rounded]

\* x + y and -x on doubles
FloatAdd(x, y) == Round[x.k + y.k, x.e + y.e]
FloatNeg(x) == [k |-> 0 - x.k, e |-> 0 - x.e]

\* fabs(x) >= fabs(y)
FloatAbsGe(x, y) ==
    LET ax == IF x.k > 0 \/ (x.k = 0 /\ x.e >= 0) THEN x ELSE FloatNeg(x)
        ay == IF y.k > 0 \/ (y.k = 0 /\ y.e >= 0) THEN y ELSE FloatNeg(y)
    IN ax.k > ay.k \/ (ax.k = ay.k /\ ax.e >= ay.e)

\* d / 5.0 for an integer d
DividedByFive(d) == Round[d, 0]

\* sum() adding left to right
RECURSIVE PlainSum(_, _)
PlainSum(total, xs) ==
    IF xs = <<>> THEN total ELSE PlainSum(FloatAdd(total, Head(xs)), Tail(xs))

\* what adding x to hi lost, t being the rounded hi + x
Lost(hi, x, t) ==
    IF FloatAbsGe(hi, x) THEN FloatAdd(FloatAdd(hi, FloatNeg(t)), x)
    ELSE FloatAdd(FloatAdd(x, FloatNeg(t)), hi)

\* one step of the compensated sum: the running total and its compensation
CompensatedAdd(total, x) ==
    [hi |-> FloatAdd(total.hi, x),
     lo |-> FloatAdd(total.lo, Lost(total.hi, x, FloatAdd(total.hi, x)))]

\* sum() adding with a running compensation (Neumaier), as newer
\* interpreters do
RECURSIVE CompensatedSum(_, _)
CompensatedSum(total, xs) ==
    IF xs = <<>> THEN (IF total.lo = Zero THEN total.hi ELSE FloatAdd(total.hi, total.lo))
    ELSE CompensatedSum(CompensatedAdd(total, Head(xs)), Tail(xs))

\* the two ways an interpreter's sum() adds floats
Summations == {"plain", "compensated"}

\* sum(xs) of a list of floats
BuiltinSum(xs, mode) ==
    IF mode = "plain" THEN PlainSum(Zero, xs)
    ELSE CompensatedSum([hi |-> Zero, lo |-> Zero], xs)

\* total / n > 0.2 on doubles, for a double total [k, e] and an integer
\* n >= 1: the quotient rounds above the double 0.2 = [1, 16] exactly when
\* total/n reaches the midpoint [1, 36] to the next double [1, 56]
QuotientAbove02(total, n) == total.k > n \/ (total.k = n /\ total.e >= 36 * n)

\* total / n < -0.2 on doubles
QuotientBelowMinus02(total, n) == QuotientAbove02(FloatNeg(total), n)

-----------------------------------------------------------------------------
(* The news analyzer of src/src/news_analyzer.py.  A news item is its     *)
(* title and the keywords of the two lists that occur in its lowercased   *)
(* title and snippet.                                                     *)

positive_keywords ==
    {"growth", "profit", "gain", "rise", "increase", "bullish", "optimistic",
     "strong", "beat", "exceed", "outperform", "upgrade", "buy", "positive",
     "rally", "surge", "boom", "recovery", "expansion"}

negative_keywords ==
    {"loss", "decline", "fall", "drop", "bearish", "pessimistic", "weak",
     "miss", "underperform", "downgrade", "sell", "negative", "crash",
     "plunge", "recession", "crisis", "concern", "risk", "volatility"}

\* the news items a search may return
NewsItemDraws ==
    {[title |-> "Shares rise", found |-> {"rise"}],
     [title |-> "Profit at risk", found |-> {"profit", "risk"}],
     [title |-> "Rally", found |-> {"rally", "surge", "boom", "gain", "rise", "strong"}],
     [title |-> "Crash", found |-> {"crash", "plunge", "crisis", "loss", "fall", "weak"}]}

\* the lists of at most n news items
RECURSIVE ItemLists(_)
ItemLists(n) ==
    IF n = 0 THEN {<<>>}
    ELSE LET shorter == ItemLists(n - 1)
         IN shorter \cup {Append(l, i) : l \in {x \in shorter : Len(x) = n - 1},
                                          i \in NewsItemDraws}

NewsLists == ItemLists(MaxItems)

Min(a, b) == IF a <= b THEN a ELSE b

\* a variant that does not cap the difference at 5
SnippetScoreUncapped(positive_count, negative_count) ==
    IF positive_count > negative_count
    THEN DividedByFive(positive_count - negative_count)
    ELSE IF negative_count > positive_count
    THEN FloatNeg(DividedByFive(negative_count - positive_count))
    ELSE Zero

\* the score of one news item
SnippetScore(positive_count, negative_count) ==
    IF positive_count > negative_count
    THEN DividedByFive(Min(positive_count - negative_count, 5))
    ELSE IF negative_count > positive_count
    THEN FloatNeg(DividedByFive(Min(negative_count - positive_count, 5)))
    ELSE Zero

\* the entry of sentiment_scores for one news item
SnippetSentiment(item) ==
    LET positive_count == Cardinality(item.found \cap positive_keywords)
        negative_count == Cardinality(item.found \cap negative_keywords)
    IN [title |-> item.title,
        sentiment |-> IF positive_count > negative_count THEN "positive"
                      ELSE IF negative_count > positive_count THEN "negative"
                      ELSE "neutral",
        score |-> SnippetScore(positive_count, negative_count)]

\* analyze_sentiment; average_score is the double nearest to num / den
AnalyzeSentiment(news_items, mode) ==
    LET sentiment_scores == [i \in 1..Len(news_items) |-> SnippetSentiment(news_items[i])]
        n == Len(sentiment_scores)
        total == BuiltinSum([i \in 1..n |-> sentiment_scores[i].score], mode)
    IN IF n > 0
       THEN [overall_sentiment |-> IF QuotientAbove02(total, n) THEN "positive"
                                   ELSE IF QuotientBelowMinus02(total, n) THEN "negative"
                                   ELSE "neutral",
             average_score |-> [num |-> total, den |-> n],
             individual_scores |-> sentiment_scores,
             total_articles |-> n]
       ELSE [overall_sentiment |-> "neutral",
             average_score |-> [num |-> Zero, den |-> 1],
             individual_scores |-> sentiment_scores,
             total_articles |-> n]

\* what the search API does when it is called: it raises, or it answers
\* with a list of items
SearchOutcomes ==
    {[raised |-> TRUE, items |-> <<>>]} \cup {[raised |-> FALSE, items |-> l] : l \in NewsLists}

\* a variant that searches without looking at self.service
SearchStockNewsAlways(configured, outcome) ==
    IF outcome.raised THEN <<>> ELSE outcome.items

\* search_stock_news
SearchStockNews(configured, outcome) ==
    IF ~configured THEN <<>>
    ELSE IF outcome.raised THEN <<>>
    ELSE outcome.items

\* news_items[:3]
FirstThree(l) == SubSeq(l, 1, Min(3, Len(l)))

\* get_stock_news_summary
GetStockNewsSummary(symbol, configured, outcome, mode) ==
    LET news_items == SearchStockNews(configured, outcome) IN
    IF news_items = <<>>
    THEN [symbol |-> symbol,
          news_available |-> FALSE,
          sentiment |-> "neutral",
          sentiment_score |-> [num |-> Zero, den |-> 1],
          total_articles |-> 0,
          recent_headlines |-> <<>>]
    ELSE LET sentiment_analysis == AnalyzeSentiment(news_items, mode) IN
         [symbol |-> symbol,
          news_available |-> TRUE,
          sentiment |-> sentiment_analysis.overall_sentiment,
          sentiment_score |-> sentiment_analysis.average_score,
          total_articles |-> sentiment_analysis.total_articles,
          recent_headlines |-> [i \in 1..Len(FirstThree(news_items)) |-> news_items[i].title]]

CallAnalyzeSentiment(news_items) ==
    /\ call' = [op |-> "analyze_sentiment", news_items |-> news_items]
    /\ ret' = AnalyzeSentiment(news_items, builtin_sum)
    /\ LedgerUnchanged
    /\ NewsUnchanged

CallGetStockNewsSummary(symbol, outcome) ==
    /\ call' = [op |-> "get_stock_news_summary", symbol |-> symbol, outcome |-> outcome]
    /\ ret' = GetStockNewsSummary(symbol, service, outcome, builtin_sum)
    /\ LedgerUnchanged
    /\ NewsUnchanged

\* NewsAnalyzer.__init__ next to a fresh ledger: the search API is built or
\* it is not
NewsInit ==
    /\ LedgerInit
    /\ Len(transactions) = Len(InitialSymbols)
    /\ service \in BOOLEAN
    /\ builtin_sum \in Summations
    /\ market = <<>>
    /\ feed = <<>>

NewsNext ==
    \/ \E news_items \in NewsLists : CallAnalyzeSentiment(news_items)
    \/ \E outcome \in SearchOutcomes : CallGetStockNewsSummary("AAPL", outcome)

SpecNews == NewsInit /\ [][NewsNext]_vars

-----------------------------------------------------------------------------
(* Properties of the news analyzer *)

IsAnalyze == call.op = "analyze_sentiment"

PositiveCount(item) == Cardinality({w \in item.found : w \in positive_keywords})
NegativeCount(item) == Cardinality({w \in item.found : w \in negative_keywords})

\* sign(P - N) * min(|P - N|, 5), the score of the claim in fifths
Fifths(item) ==
    LET d == PositiveCount(item) - NegativeCount(item)
    IN IF d > 5 THEN 5 ELSE IF d < -5 THEN -5 ELSE d

\* the double x lies in [-1, 1]
WithinUnit(x) ==
    /\ x.k \in -5..5
    /\ x.k = 5 => x.e <= 0
    /\ x.k = -5 => x.e >= 0

\* C16: a snippet with P positive and N negative keywords is labelled
\* positive iff P > N, negative iff N > P, neutral iff P = N, and scored
\* sign(P - N) * min(|P - N|, 5) / 5; every per-snippet score and the average
\* lie in [-1, 1].
C16_SnippetLabelAndScore ==
    IsAnalyze =>
        /\ Len(ret.individual_scores) = Len(call.news_items)
        /\ \A i \in 1..Len(call.news_items) :
              LET item == call.news_items[i]
                  P == PositiveCount(item)
                  N == NegativeCount(item)
                  entry == ret.individual_scores[i]
              IN /\ (entry.sentiment = "positive") <=> (P > N)
                 /\ (entry.sentiment = "negative") <=> (N > P)
                 /\ (entry.sentiment = "neutral") <=> (P = N)
                 /\ entry.score = DividedByFive(Fifths(item))
                 /\ WithinUnit(entry.score)
        \* the average: the double nearest to num / den is at most 1 in size
        /\ LET total == ret.average_score.num
               n == ret.average_score.den
           IN /\ total.k < 5 * n \/ (total.k = 5 * n /\ total.e <= 160 * n)
              /\ total.k > -5 * n \/ (total.k = -5 * n /\ total.e >= -160 * n)

\* a snippet with more than five keywords of one kind next to a mixed one
C16_Witness ==
    /\ IsAnalyze
    /\ \E i \in 1..Len(call.news_items) :
          /\ PositiveCount(call.news_items[i]) > 5
          /\ ret.individual_scores[i].score = [k |-> 5, e |-> 0]
    /\ \E i \in 1..Len(call.news_items) :
          /\ PositiveCount(call.news_items[i]) > 0
          /\ NegativeCount(call.news_items[i]) > 0

RECURSIVE SumOfFifths(_)
SumOfFifths(items) ==
    IF items = <<>> THEN 0 ELSE Fifths(Head(items)) + SumOfFifths(Tail(items))

\* C17: for a non-empty snippet sequence the overall sentiment is positive
\* iff the arithmetic mean of the per-snippet scores is strictly greater than
\* 0.2, negative iff it is strictly less than -0.2, neutral otherwise; a mean
\* of exactly 0.2 or -0.2 is neutral.  The mean is (sum of fifths) / (5 n).
C17_MeanThresholds ==
    (IsAnalyze /\ call.news_items # <<>>) =>
        LET n == Len(call.news_items)
            fifths == SumOfFifths(call.news_items)
        IN /\ (ret.overall_sentiment = "positive") <=> (fifths > n)
           /\ (ret.overall_sentiment = "negative") <=> (fifths < 0 - n)
           /\ (ret.overall_sentiment = "neutral") <=> (fifths <= n /\ fifths >= 0 - n)

\* C18: without snippets - the source not configured, the search raised or
\* returned nothing - get_stock_news_summary returns neutral, 0.0,
\* news_available false and no headlines; news_available is true exactly
\* when at least one snippet was retrieved.
C18_NoNewsGivesNeutral ==
    call.op = "get_stock_news_summary" =>
        LET retrieved == service /\ ~call.outcome.raised /\ call.outcome.items # <<>>
        IN /\ ret.news_available <=> retrieved
           /\ ~retrieved =>
                 /\ ret.sentiment = "neutral"
                 /\ ret.sentiment_score.num = [k |-> 0, e |-> 0]
                 /\ ret.recent_headlines = <<>>

\* the search API is not configured although a search would have found news
C18_Witness ==
    /\ call.op = "get_stock_news_summary"
    /\ ~service
    /\ call.outcome.items # <<>>
    /\ ~ret.news_available

-----------------------------------------------------------------------------
(* get_investment_suggestions of src/src/investment_analyzer.py.  A daily  *)
(* return is counted in basis points, a volatility in percent, a price in  *)
(* cents.                                                                  *)

\* global_stocks, in the dict's order
global_stocks ==
    <<[category |-> "US_BlueChip",
       stocks |-> <<"AAPL", "MSFT", "GOOGL", "AMZN", "TSLA", "NVDA", "META", "JPM", "JNJ", "PG">>],
      [category |-> "US_Growth",
       stocks |-> <<"PLTR", "ROKU", "SQ", "SHOP", "ZM", "NFLX", "AMD", "CRM", "SNOW", "COIN">>],
      [category |-> "EU_BlueChip",
       stocks |-> <<"ASML", "SAP", "LVMH.PA", "NVO", "MC.PA", "OR.PA", "SAN.PA", "TTE.PA">>],
      [category |-> "UK_BlueChip",
       stocks |-> <<"SHEL.L", "AZN.L", "ULVR.L", "BP.L", "VOD.L", "HSBA.L">>],
      [category |-> "Asia_BlueChip",
       stocks |-> <<"TSM", "BABA", "7203.T", "005930.KS", "TM", "6758.T">>],
      [category |-> "Canada_BlueChip",
       stocks |-> <<"SHOP.TO", "RY.TO", "TD.TO", "CNR.TO", "SU.TO">>],
      [category |-> "Australia_BlueChip",
       stocks |-> <<"CBA.AX", "BHP.AX", "CSL.AX", "WBC.AX">>]>>

StocksOf(category) ==
    (CHOOSE g \in {global_stocks[i] : i \in DOMAIN global_stocks} : g.category = category).stocks

\* l[:n]
Prefix(l, n) == SubSeq(l, 1, Min(n, Len(l)))

\* stock_symbols
StockSymbols(include_growth_stocks) ==
    StocksOf("US_BlueChip")
    \o Prefix(StocksOf("EU_BlueChip"), 4)
    \o Prefix(StocksOf("UK_BlueChip"), 3)
    \o Prefix(StocksOf("Asia_BlueChip"), 4)
    \o (IF include_growth_stocks
        THEN StocksOf("US_Growth")
             \o Prefix(StocksOf("Canada_BlueChip"), 3)
             \o Prefix(StocksOf("Australia_BlueChip"), 2)
        ELSE <<>>)

Range(l) == {l[i] : i \in DOMAIN l}

\* the first category of global_stocks that lists the symbol, "" when none does
CategoryOf(symbol) ==
    LET listing == {i \in DOMAIN global_stocks : symbol \in Range(global_stocks[i].stocks)}
    IN IF listing = {} THEN ""
       ELSE global_stocks[CHOOSE i \in listing : \A j \in listing : i <= j].category

\* a variant that takes every category but the US blue chips for growth
IsGrowthCategoryOutsideBlueChipUS(category) == category # "US_BlueChip"

\* 'Growth' in category
IsGrowthCategory(category) == category = "US_Growth"

\* region and currency by the substring tests on the category's name
RegionOf(category) ==
    CASE category = "EU_BlueChip" -> "Europe"
      [] category = "UK_BlueChip" -> "UK"
      [] category = "Asia_BlueChip" -> "Asia"
      [] category = "Canada_BlueChip" -> "Canada"
      [] category = "Australia_BlueChip" -> "Australia"
      [] OTHER -> "US"

CurrencyOf(category) ==
    CASE category = "EU_BlueChip" -> "EUR"
      [] category = "UK_BlueChip" -> "GBP"
      [] category = "Asia_BlueChip" -> "Local"
      [] category = "Canada_BlueChip" -> "CAD"
      [] category = "Australia_BlueChip" -> "AUD"
      [] OTHER -> "USD"

\* the symbols the market may have data for
LiveSymbols == {"AAPL", "MSFT", "ASML", "SHEL.L", "PLTR"}

\* ticker.history(period="30d") with no row
EmptyHistory ==
    [empty |-> TRUE, raised |-> FALSE, price |-> 0, daily_return |-> 0, volatility |-> 0]

\* a fetch that raises inside the loop's try: ticker.history or ticker.info
\* fails, or the history has one row and iloc[-2] is out of range
RaisedHistory ==
    [empty |-> FALSE, raised |-> TRUE, price |-> 0, daily_return |-> 0, volatility |-> 0]

\* a history the loop can use
UsableHistory(price, daily_return, volatility) ==
    [empty |-> FALSE, raised |-> FALSE, price |-> price, daily_return |-> daily_return,
     volatility |-> volatility]

\* what a 30-day history of a symbol may come to: the last close, the last
\* daily return and the annualized volatility
HistoryDraws(symbol) ==
    {EmptyHistory} \cup
    (IF symbol \in {"AAPL", "PLTR"} THEN {RaisedHistory} ELSE {}) \cup
    (IF symbol = "PLTR"
     THEN {UsableHistory(2500, 100, 25)}
     ELSE {UsableHistory(15000, dv[1], dv[2]) : dv \in {<<0, 10>>, <<0, 40>>, <<100, 10>>}})

MarketDraws == {m \in [LiveSymbols -> UNION {HistoryDraws(x) : x \in LiveSymbols}] :
                  \A x \in LiveSymbols : m[x] \in HistoryDraws(x)}

\* the news a search finds: none at all, or some for every live symbol but
\* one, with a result for SHEL.L whose title is null
FeedDraws ==
    {<<>>,
     [x \in LiveSymbols |->
        CASE x = "AAPL" -> [raised |-> FALSE,
                            items |-> [i \in 1..3 |-> [title |-> "Shares rise", found |-> {"rise"}]]]
          [] x = "MSFT" -> [raised |-> TRUE, items |-> <<>>]
          [] x = "SHEL.L" -> [raised |-> FALSE,
                              items |-> <<[title |-> "", found |-> {}, null_title |-> TRUE]>>]
          [] OTHER -> [raised |-> FALSE,
                       items |-> <<[title |-> "Weak quarter", found |-> {"weak", "loss"}]>>]]}

\* the amounts of a call, in dollars: above every price, below every price,
\* and below zero
AmountArgs == {1000, 10, 0 - 1000}

HistoryOf(symbol) == IF symbol \in DOMAIN market THEN market[symbol] ELSE EmptyHistory

SearchOutcomeOf(symbol) ==
    IF symbol \in DOMAIN feed THEN feed[symbol] ELSE [raised |-> FALSE, items |-> <<>>]

\* int(x / y) for y > 0: the quotient cut toward zero
IntOfQuotient(x, y) == IF x >= 0 THEN x \div y ELSE 0 - ((0 - x) \div y)

\* the suggestion built for a symbol with a history
Suggestion(symbol, hist, amount_usd) ==
    LET category == CategoryOf(symbol)
        is_growth_stock == IsGrowthCategory(category)
        region == RegionOf(category)
        shares_affordable == IntOfQuotient(USD(amount_usd), hist.price)
    IN [symbol |-> symbol,
        price |-> hist.price,
        currency |-> CurrencyOf(category),
        region |-> region,
        category |-> IF is_growth_stock THEN "Growth" ELSE "Blue Chip",
        risk_level |-> RiskLevel(hist.volatility, is_growth_stock, region),
        daily_return |-> hist.daily_return,
        volatility |-> hist.volatility,
        is_growth_stock |-> is_growth_stock,
        risk_warning |-> RiskWarning(is_growth_stock, region),
        shares_affordable |-> shares_affordable,
        investment_amount |-> shares_affordable * hist.price]

\* a variant of the loop in which one failed fetch ends the collection
RECURSIVE CollectSuggestionsUntilFailure(_, _)
CollectSuggestionsUntilFailure(symbols, amount_usd) ==
    IF symbols = <<>> THEN <<>>
    ELSE LET hist == HistoryOf(Head(symbols))
         IN IF hist.raised THEN <<>>
            ELSE IF hist.empty THEN CollectSuggestionsUntilFailure(Tail(symbols), amount_usd)
            ELSE <<Suggestion(Head(symbols), hist, amount_usd)>>
                     \o CollectSuggestionsUntilFailure(Tail(symbols), amount_usd)

\* the loop over stock_symbols: a symbol whose fetch raises (except ...
\* continue) or whose history is empty (if hist.empty: continue) is skipped
RECURSIVE CollectSuggestions(_, _)
CollectSuggestions(symbols, amount_usd) ==
    IF symbols = <<>> THEN <<>>
    ELSE LET hist == HistoryOf(Head(symbols))
             rest == CollectSuggestions(Tail(symbols), amount_usd)
         IN IF hist.raised \/ hist.empty THEN rest
            ELSE <<Suggestion(Head(symbols), hist, amount_usd)>> \o rest

\* the code points of the strings the sort compares
CodePoints(str) ==
    CASE str = "US" -> <<85, 83>>
      [] str = "UK" -> <<85, 75>>
      [] str = "Europe" -> <<69, 117, 114, 111, 112, 101>>
      [] str = "Asia" -> <<65, 115, 105, 97>>
      [] str = "Canada" -> <<67, 97, 110, 97, 100, 97>>
      [] str = "Australia" -> <<65, 117, 115, 116, 114, 97, 108, 105, 97>>
      [] str = "low" -> <<108, 111, 119>>
      [] str = "medium" -> <<109, 101, 100, 105, 117, 109>>
      [] str = "high" -> <<104, 105, 103, 104>>
      [] str = "extreme" -> <<101, 120, 116, 114, 101, 109, 101>>

\* a < b on strings: by the first code point that differs, a proper prefix first
RECURSIVE CodePointsLess(_, _)
CodePointsLess(a, b) ==
    IF b = <<>> THEN FALSE
    ELSE IF a = <<>> THEN TRUE
    ELSE IF Head(a) # Head(b) THEN Head(a) < Head(b)
    ELSE CodePointsLess(Tail(a), Tail(b))

StrLess(a, b) == CodePointsLess(CodePoints(a), CodePoints(b))

\* a variant of the key's order that looks at the daily return alone
KeyLessByReturn(x, y) == x.daily_return > y.daily_return

\* key(x) < key(y) for the key (-daily_return, region, risk_level)
KeyLess(x, y) ==
    \/ 0 - x.daily_return < 0 - y.daily_return
    \/ /\ x.daily_return = y.daily_return
       /\ \/ StrLess(x.region, y.region)
          \/ /\ x.region = y.region
             /\ StrLess(x.risk_level, y.risk_level)

\* x put into a sorted list behind every entry whose key is not greater
RECURSIVE InsertByKey(_, _)
InsertByKey(sorted, x) ==
    IF sorted = <<>> THEN <<x>>
    ELSE IF KeyLess(x, Head(sorted)) THEN <<x>> \o sorted
    ELSE <<Head(sorted)>> \o InsertByKey(Tail(sorted), x)

\* list.sort(key=...): a stable sort
RECURSIVE SortByKey(_, _)
SortByKey(sorted, rest) ==
    IF rest = <<>> THEN sorted
    ELSE SortByKey(InsertByKey(sorted, Head(rest)), Tail(rest))

\* the suggestion with the news fields of its lookup; recommendation_strength,
\* in tenths, is set for a positive or negative sentiment only (<<>>: not set)
Enhanced(suggestion, news_summary) ==
    [suggestion |-> suggestion,
     news_sentiment |-> news_summary.sentiment,
     news_score |-> news_summary.sentiment_score,
     news_available |-> news_summary.news_available,
     recent_headlines |-> news_summary.recent_headlines,
     recommendation_strength |->
        IF news_summary.sentiment = "positive" THEN <<Min(5 + 1, 10)>>
        ELSE IF news_summary.sentiment = "negative" THEN <<Max(5 - 1, 0)>>
        ELSE <<>>]

\* the suggestion with the news fields of the except branch; the branch sets
\* no recommendation_strength
DefaultNews(suggestion) ==
    [suggestion |-> suggestion,
     news_sentiment |-> "neutral",
     news_score |-> [num |-> Zero, den |-> 1],
     news_available |-> FALSE,
     recent_headlines |-> <<>>,
     recommendation_strength |-> <<>>]

\* item.get('title', '') + ' ' raises TypeError for an item whose title is
\* null, and get_stock_news_summary lets it through
LookupRaises(news_items) ==
    \E i \in DOMAIN news_items : "null_title" \in DOMAIN news_items[i]

\* one round of the loop: the try, or the except when the lookup raises
EnhanceOne(suggestion) ==
    LET outcome == SearchOutcomeOf(suggestion.symbol) IN
    IF LookupRaises(SearchStockNews(service, outcome))
    THEN DefaultNews(suggestion)
    ELSE Enhanced(suggestion,
                  GetStockNewsSummary(suggestion.symbol, service, outcome, builtin_sum))

\* a variant that leaves out the suggestion whose lookup raised
EnhanceSuggestionsWithNewsDropping(suggestions) ==
    LET kept == SelectSeq(suggestions,
                          LAMBDA x : ~LookupRaises(SearchStockNews(service,
                                                                   SearchOutcomeOf(x.symbol))))
    IN [i \in 1..Len(kept) |-> EnhanceOne(kept[i])]

\* enhance_suggestions_with_news
EnhanceSuggestionsWithNews(suggestions) ==
    [i \in 1..Len(suggestions) |-> EnhanceOne(suggestions[i])]

GetInvestmentSuggestions(amount_usd, include_growth_stocks) ==
    LET suggestions == CollectSuggestions(StockSymbols(include_growth_stocks), amount_usd)
    IN EnhanceSuggestionsWithNews(SortByKey(<<>>, suggestions))

CallGetInvestmentSuggestions(amount_usd, include_growth_stocks) ==
    /\ call' = [op |-> "get_investment_suggestions", amount_usd |-> amount_usd,
                include_growth_stocks |-> include_growth_stocks]
    /\ ret' = [tag |-> "suggestions",
               list |-> GetInvestmentSuggestions(amount_usd, include_growth_stocks)]
    /\ LedgerUnchanged
    /\ NewsUnchanged

\* [s for s in suggestions if s.get('category') == 'blue_chip']
BlueChipStocks(suggestions) ==
    SelectSeq(suggestions, LAMBDA s : s.suggestion.category = "blue_chip")

\* [s for s in suggestions if s.get('category') == 'growth']
GrowthStocks(suggestions) ==
    SelectSeq(suggestions, LAMBDA s : s.suggestion.category = "growth")

\* the consumer's step on the list a call has just returned: run_demo and
\* generate_call_script build the two lists they print
Present ==
    /\ call.op = "get_investment_suggestions"
    /\ call' = [op |-> "present", suggestions |-> ret.list]
    /\ ret' = [tag |-> "presentation",
               blue_chip_stocks |-> BlueChipStocks(ret.list),
               growth_stocks |-> GrowthStocks(ret.list)]
    /\ LedgerUnchanged
    /\ NewsUnchanged

\* InvestmentAnalyzer.__init__ in some state of the market and of the news
SuggestInit ==
    /\ LedgerInit
    /\ Len(transactions) = Len(InitialSymbols)
    /\ service \in BOOLEAN
    /\ builtin_sum \in Summations
    /\ market \in MarketDraws
    /\ feed \in FeedDraws

SuggestNext ==
    \/ \E amount_usd \in AmountArgs, include_growth_stocks \in BOOLEAN :
          CallGetInvestmentSuggestions(amount_usd, include_growth_stocks)
    \/ Present

SpecSuggest == SuggestInit /\ [][SuggestNext]_vars

-----------------------------------------------------------------------------
(* Properties of the ranking *)

IsSuggest == call.op = "get_investment_suggestions"

\* the regions in lexicographic order
RegionRank(region) ==
    CASE region = "Asia" -> 1 [] region = "Australia" -> 2 [] region = "Canada" -> 3
      [] region = "Europe" -> 4 [] region = "UK" -> 5 [] region = "US" -> 6

\* the fixed ordering low < medium < high < extreme
TierRank(risk_level) ==
    CASE risk_level = "low" -> 1 [] risk_level = "medium" -> 2
      [] risk_level = "high" -> 3 [] risk_level = "extreme" -> 4

\* C19: for any two adjacent suggestions a before b of the returned list,
\* a.daily_return > b.daily_return, or the two are equal and a.region <=
\* b.region lexicographically; the news enrichment keeps this order.
C19_SortedByReturnThenRegion ==
    IsSuggest =>
        \A i \in 1..(Len(ret.list) - 1) :
            LET a == ret.list[i].suggestion
                b == ret.list[i + 1].suggestion
            IN \/ a.daily_return > b.daily_return
               \/ /\ a.daily_return = b.daily_return
                  /\ RegionRank(a.region) <= RegionRank(b.region)

\* a list that news enriched, with a tie on the return between two regions
\* collected in the other order, and a step down in the return
C19_Witness ==
    /\ IsSuggest
    /\ Len(ret.list) >= 3
    /\ \E i \in 1..(Len(ret.list) - 1) :
          /\ ret.list[i].suggestion.daily_return = ret.list[i + 1].suggestion.daily_return
          /\ ret.list[i].suggestion.region = "UK"
          /\ ret.list[i + 1].suggestion.region = "US"
    /\ \E i \in 1..(Len(ret.list) - 1) :
          ret.list[i].suggestion.daily_return > ret.list[i + 1].suggestion.daily_return
    /\ \E i \in 1..Len(ret.list) : ret.list[i].news_available

\* C20: suggestions of equal daily_return and equal region come in
\* ascending risk under low < medium < high < extreme.
C20_RiskAscendingWithinTies ==
    IsSuggest =>
        \A i, j \in 1..Len(ret.list) :
            LET a == ret.list[i].suggestion
                b == ret.list[j].suggestion
            IN (i < j /\ a.daily_return = b.daily_return /\ a.region = b.region) =>
                  TierRank(a.risk_level) <= TierRank(b.risk_level)

\* the symbols of the candidate list whose fetch raises or finds no history
Failing(symbols) == {x \in Range(symbols) : HistoryOf(x).raised \/ HistoryOf(x).empty}

\* how many entries of the returned list are about the symbol
Occurrences(symbol) == Cardinality({i \in DOMAIN ret.list : ret.list[i].suggestion.symbol = symbol})

\* C21: whatever set of candidate symbols fails to fetch (the fetch raises or
\* the history is empty), the call returns a list, with no suggestion for a
\* failing symbol and exactly one for every other candidate; when every
\* candidate fails the list is empty.
C21_FailedFetchesAreSkipped ==
    IsSuggest =>
        LET symbols == StockSymbols(call.include_growth_stocks) IN
        /\ ret.tag = "suggestions"
        /\ \A x \in Failing(symbols) : Occurrences(x) = 0
        /\ \A x \in Range(symbols) \ Failing(symbols) : Occurrences(x) = 1
        /\ Len(ret.list) = Cardinality(Range(symbols) \ Failing(symbols))
        /\ Failing(symbols) = Range(symbols) => ret.list = <<>>

\* the first candidate's fetch raised, a later one found no history, and the
\* call returned the suggestions of the candidates after them
C21_Witness ==
    /\ IsSuggest
    /\ HistoryOf("AAPL").raised
    /\ HistoryOf("ASML").empty
    /\ Occurrences("MSFT") = 1
    /\ Occurrences("SHEL.L") = 1

\* every candidate failed, one of them by raising, and the list is empty
C21_WitnessAllFail ==
    /\ IsSuggest
    /\ call.include_growth_stocks
    /\ HistoryOf("PLTR").raised
    /\ Failing(StockSymbols(TRUE)) = Range(StockSymbols(TRUE))
    /\ ret.list = <<>>

\* floor(x / y) for y > 0
Floor(x, y) == x \div y

\* C22: every suggestion of the returned list has shares_affordable =
\* floor(amount / price) and investment_amount = shares_affordable * price,
\* so that investment_amount <= amount < investment_amount + price, for an
\* amount above the price, below it, or below zero.
C22_SharesAreFloorOfQuotient ==
    IsSuggest =>
        \A i \in DOMAIN ret.list :
            LET s == ret.list[i].suggestion
                amount == USD(call.amount_usd)
            IN /\ s.price > 0
               /\ s.shares_affordable = Floor(amount, s.price)
               /\ s.investment_amount = s.shares_affordable * s.price
               /\ s.investment_amount <= amount
               /\ amount < s.investment_amount + s.price

\* the list handed to enhance_suggestions_with_news: the sorted suggestions
EnhanceInput ==
    SortByKey(<<>>, CollectSuggestions(StockSymbols(call.include_growth_stocks),
                                       call.amount_usd))

\* the news a lookup of the symbol finds
LookupItems(symbol) == SearchStockNews(service, SearchOutcomeOf(symbol))

\* C23: the enriched list has the suggestions of its input, in the same
\* order and number; a suggestion whose news lookup raised has neutral, 0.0,
\* not available and no headline, and every other has the fields of its own
\* lookup.
C23_EnrichmentKeepsListAndIsolatesFailure ==
    IsSuggest =>
        /\ Len(ret.list) = Len(EnhanceInput)
        /\ \A i \in DOMAIN ret.list :
              LET e == ret.list[i]
                  own == GetStockNewsSummary(e.suggestion.symbol, service,
                                             SearchOutcomeOf(e.suggestion.symbol), builtin_sum)
              IN /\ e.suggestion = EnhanceInput[i]
                 /\ IF LookupRaises(LookupItems(e.suggestion.symbol))
                    THEN /\ e.news_sentiment = "neutral"
                         /\ e.news_score = [num |-> Zero, den |-> 1]
                         /\ e.news_available = FALSE
                         /\ e.recent_headlines = <<>>
                    ELSE /\ e.news_sentiment = own.sentiment
                         /\ e.news_score = own.sentiment_score
                         /\ e.news_available = own.news_available
                         /\ e.recent_headlines = own.recent_headlines

\* the lookup raised for SHEL.L alone, in a list where AAPL has its own
\* positive news and another symbol its own negative news
C23_Witness ==
    /\ IsSuggest
    /\ \E i, j, k \in DOMAIN ret.list :
          /\ ret.list[i].suggestion.symbol = "SHEL.L"
          /\ LookupRaises(LookupItems("SHEL.L"))
          /\ ~ret.list[i].news_available
          /\ ret.list[j].suggestion.symbol = "AAPL"
          /\ ret.list[j].news_available
          /\ ret.list[j].recent_headlines # <<>>
          /\ ret.list[k].news_sentiment = "negative"

IsPresent == call.op = "present"

\* C24: the two lists the consumers build partition the ranked list: every
\* suggestion is in exactly one of them, and each list keeps the order of
\* the ranked list.
C24_PresentationPartitions ==
    IsPresent =>
        /\ \A i \in DOMAIN call.suggestions :
              LET s == call.suggestions[i]
                  in_blue == \E j \in DOMAIN ret.blue_chip_stocks : ret.blue_chip_stocks[j] = s
                  in_growth == \E j \in DOMAIN ret.growth_stocks : ret.growth_stocks[j] = s
              IN in_blue # in_growth
        /\ Len(ret.blue_chip_stocks) + Len(ret.growth_stocks) = Len(call.suggestions)
        /\ ret.blue_chip_stocks =
              SelectSeq(call.suggestions, LAMBDA s : s \in Range(ret.blue_chip_stocks))
        /\ ret.growth_stocks =
              SelectSeq(call.suggestions, LAMBDA s : s \in Range(ret.growth_stocks))

\* the orders in which n results may be collected
CollectionOrders(n) == {f \in [1..n -> 1..n] : \A i, j \in 1..n : f[i] = f[j] => i = j}

\* the list in the order the permutation gives
Permuted(l, f) == [i \in 1..Len(l) |-> l[f[i]]]

\* C25: the sorted list does not depend on the order in which the
\* suggestions were collected: sorting any permutation of the collected
\* suggestions gives the list the call returned, ties on daily_return,
\* region and risk_level included.
C25_SortIndependentOfCollectionOrder ==
    IsSuggest =>
        LET collected == CollectSuggestions(StockSymbols(call.include_growth_stocks),
                                            call.amount_usd)
            returned == [i \in DOMAIN ret.list |-> ret.list[i].suggestion]
        IN \A f \in CollectionOrders(Len(collected)) :
              SortByKey(<<>>, Permuted(collected, f)) = returned

\* C27: in every suggestion a call returns, with or without the growth
\* stocks, a growth stock is in region US; so the base risk is never 1.5, a
\* volatility in [0.20, 0.30) is classified medium, and no risk warning has
\* both the growth and the international sentence.
C27_GrowthStocksAreUS ==
    IsSuggest =>
        \A i \in DOMAIN ret.list :
            LET s == ret.list[i].suggestion IN
            /\ s.is_growth_stock => s.region = "US"
            /\ BaseRisk(s.is_growth_stock, s.region) # 3
            /\ (20 <= s.volatility /\ s.volatility < 30) => s.risk_level = "medium"
            /\ s.risk_warning # <<GrowthWarning \o InternationalWarning>>

\* a returned list with a growth stock of volatility 0.25, classified medium
\* with the growth sentence alone, and an international blue chip with the
\* international sentence alone
C27_Witness ==
    /\ IsSuggest
    /\ call.include_growth_stocks
    /\ \E i, j \in DOMAIN ret.list :
          /\ ret.list[i].suggestion.is_growth_stock
          /\ ret.list[i].suggestion.volatility = 25
          /\ ret.list[i].suggestion.risk_level = "medium"
          /\ ret.list[i].suggestion.risk_warning = <<GrowthWarning>>
          /\ IsForeign(ret.list[j].suggestion.region)
          /\ ret.list[j].suggestion.risk_warning = <<"" \o InternationalWarning>>

-----------------------------------------------------------------------------
(* Further properties of the ledger *)

SameAmount(p, q) == p.num * q.den = q.num * p.den

\* C29: whenever identify_unused_funds returns a result, its unused_funds
\* is the value get_idle_cash returns for the same ledger at the same
\* instant, with or without a spending pattern.
C29_UnusedFundsEqualIdleCash ==
    (IsUnusedFundsCall /\ ret # None) =>
        SameAmount(ret.unused_funds, GetIdleCash(cash_balance, transactions, now))

\* cash_balance - monthly_average at clock reading t, the monthly average
\* being the pattern's, or 1500 dollars without a pattern
IdleAmount(cash, txs, t) ==
    CashLess(cash, MonthlyOrDefault(CalculateSpendingPatterns(txs, t, 30)))

\* p <= q for fractions of positive denominator
AmountLeq(p, q) == p.num * q.den <= q.num * p.den

\* C30: a buy of s shares at price p with s*p >= 0 never increases the idle
\* amount cash_balance - monthly_average: the amount computed right after
\* the buy is at most the amount computed right before it, at the instant
\* of the buy.
C30_BuyNeverIncreasesIdle ==
    (IsAdd("buy") /\ call.shares * CallPrice >= 0) =>
        AmountLeq(IdleAmount(cash_balance, transactions, now),
                  IdleAmount(pre.cash_balance, pre.transactions, now))

\* the ids of a log, in order
Ids(txs) == [i \in DOMAIN txs |-> txs[i].id]

\* the ledger after the call of frame f has run alone from the fields in start
RunAlone(start, f) ==
    LET price == PriceOf(f.symbol, f.priceArg)
        tx == Transaction(start.transactions, f.symbol, f.action, f.shares, price, 0)
    IN [cash_balance |-> CashAfter(start.cash_balance, f.action, tx.total_value),
        holdings |-> HoldingsAfter(start.holdings, f.symbol, f.action, f.shares),
        transactions |-> LogAfter(start.transactions, tx)]

\* the ledger's fields when the first of the two calls was entered
BeforeCalls ==
    IF Len(threads["first"].entry.transactions) <= Len(threads["second"].entry.transactions)
    THEN threads["first"].entry
    ELSE threads["second"].entry

\* the fields are those of the calls run one after the other, p before q
LikeSerial(p, q) ==
    LET end == RunAlone(RunAlone(BeforeCalls, threads[p]), threads[q])
    IN /\ cash_balance = end.cash_balance
       /\ holdings = end.holdings
       /\ Ids(transactions) = Ids(end.transactions)

\* C26: add_transaction is atomic.  When two calls whose statements
\* interleaved have both returned, cash_balance, holdings and the ids of
\* the log are those of one of the two serial orders; and a get_idle_cash
\* never runs while a call has appended its transaction and not yet updated
\* cash_balance and holdings.
C26_AddTransactionAtomic ==
    /\ (\A p \in Callers : threads[p].pc = "done") =>
          (LikeSerial("first", "second") \/ LikeSerial("second", "first"))
    /\ call.op = "get_idle_cash" =>
          \A p \in Callers : threads[p].pc \notin {"cash", "holdings"}

====
